---- MODULE Spec2Model ----
(***************************************************************************)
(* Model of libs/autoattack/square.py: the Square Attack (SquareAttack)    *)
(* adapted to a Dice-score oracle.  perturb drives n_restarts runs of      *)
(* attack_single_run over the still-robust examples of a batch.            *)
(*                                                                         *)
(* Numbers.  Pixel values and eps are counted in units of 1/One, so the    *)
(* box [0,1] is 0..One.  Dice scores are counted in levels 0..MaxScore.    *)
(* The schedule fraction p is the rational <<num, den>>.                    *)
(***************************************************************************)
EXTENDS Integers, Sequences, FiniteSets, TLC

\* ------------------------------------------------------------- bounds ----
One == 4
MaxScore == 3
MaxQueries == 2
MaxRestarts == 2

\* ------------------------------------------- double precision helpers ----
\* A double is [m |-> 53 bits, most significant first, e |-> exponent of the
\* first bit]; Zero stands for 0.0.
MantBits == 53
ChunkBits == 13
Zero == [m |-> <<>>, e |-> 0]

Min2(a, b) == IF a <= b THEN a ELSE b
Max2(a, b) == IF a >= b THEN a ELSE b

\* Number of binary digits of v (0 for 0), v < 2^30.
BitLen(v) == CHOOSE w \in 0..30 : v < 2 ^ w /\ (w = 0 \/ v >= 2 ^ (w - 1))

\* The w low binary digits of v, most significant first.
Bits(v, w) == [i \in 1..w |-> (v \div (2 ^ (w - i))) % 2]

IntBits(v) == Bits(v, BitLen(v))

\* Value of the digits bits[lo..hi] (at most 30 of them).
RECURSIVE BitsVal(_, _, _)
BitsVal(bits, lo, hi) ==
  IF hi < lo THEN 0 ELSE 2 * BitsVal(bits, lo, hi - 1) + bits[hi]

\* k further binary digits of r / n (r < n < 2^17), and the remainder left.
RECURSIVE FracBits(_, _, _)
FracBits(r, n, k) ==
  IF k = 0 THEN [bits |-> <<>>, rem |-> r]
  ELSE LET w == Min2(k, ChunkBits)
           t == r * (2 ^ w)
           rest == FracBits(t % n, n, k - w)
       IN [bits |-> Bits(t \div n, w) \o rest.bits, rem |-> rest.rem]

\* Number of zero digits of r / n (0 < r < n) before its first one.
LeadZeros(r, n) ==
  CHOOSE z \in 0..29 :
    /\ (n + 2 ^ (z + 1) - 1) \div (2 ^ (z + 1)) <= r
    /\ \A y \in 0..(z - 1) : (n + 2 ^ (y + 1) - 1) \div (2 ^ (y + 1)) > r

\* bits + 1; one digit longer when every digit is a one.
IncBits(bits) ==
  LET zs == {j \in 1..Len(bits) : bits[j] = 0}
  IN IF zs = {} THEN <<1>> \o [i \in 1..Len(bits) |-> 0]
     ELSE LET j == CHOOSE q \in zs : \A o \in zs : o <= q
          IN [i \in 1..Len(bits) |->
                IF i < j THEN bits[i] ELSE IF i = j THEN 1 ELSE 0]

\* Round to nearest, ties to even: bits holds at least MantBits + 1 digits
\* starting with a one, e is the exponent of its first digit, sticky tells
\* whether non-zero digits follow bits.
RoundEven(bits, e, sticky) ==
  LET m == SubSeq(bits, 1, MantBits)
      g == bits[MantBits + 1]
      tail == \E j \in (MantBits + 2)..Len(bits) : bits[j] = 1
      up == g = 1 /\ (sticky \/ tail \/ m[MantBits] = 1)
      r == IF up THEN IncBits(m) ELSE m
  IN IF Len(r) > MantBits THEN [m |-> SubSeq(r, 1, MantBits), e |-> e + 1]
     ELSE [m |-> r, e |-> e]

\* a / b of two non-negative ints (b > 0) as Python's true division.
FlDiv(a, b) ==
  IF a = 0 THEN Zero
  ELSE LET ib == IntBits(a \div b)
           r0 == a % b
           lz == IF ib = <<>> THEN LeadZeros(r0, b) ELSE 0
           k == IF ib = <<>> THEN lz + MantBits + 1
                ELSE MantBits + 1 - Len(ib)
           fr == FracBits(r0, b, k)
           all == ib \o fr.bits
           sig == SubSeq(all, lz + 1, Len(all))
           e == IF ib = <<>> THEN -(lz + 1) ELSE Len(ib) - 1
       IN RoundEven(sig, e, fr.rem # 0)

\* Digits of bits[1..hi] * k + carry, ChunkBits digits at a time.
RECURSIVE MulChunks(_, _, _, _)
MulChunks(bits, hi, k, carry) ==
  IF hi = 0 THEN IntBits(carry)
  ELSE LET lo == Max2(1, hi - ChunkBits + 1)
           w == hi - lo + 1
           t == BitsVal(bits, lo, hi) * k + carry
       IN MulChunks(bits, lo - 1, k, t \div (2 ^ w)) \o Bits(t % (2 ^ w), w)

\* double * small positive int (k < 2^15).
FlMul(f, k) ==
  IF f.m = <<>> THEN Zero
  ELSE LET p == MulChunks(f.m, MantBits, k, 0)
           e == f.e + (Len(p) - MantBits)
       IN IF Len(p) = MantBits THEN [m |-> p, e |-> e]
          ELSE RoundEven(p, e, FALSE)

\* int(f) of a non-negative double below 2^30: truncation.
FlInt(f) ==
  IF f.m = <<>> \/ f.e < 0 THEN 0 ELSE BitsVal(f.m, 1, f.e + 1)

\* ---------------------------------------------------------- schedule ----
\* p_init = .8, the constructor's default.
P_INIT == <<4, 5>>
RefScale == 10000

\* The budgets n_queries takes: those of the runs and those of the schedule
\* specification.
SchedQueries == {10000, 5000, 100, 7}
QueryBudgets == (1..MaxQueries) \cup SchedQueries

\* int(it / self.n_queries * 10000), tabulated over range(n_queries).
RescaleTable ==
  [nq \in QueryBudgets |->
     [it \in 0..(nq - 1) |-> FlInt(FlMul(FlDiv(it, nq), RefScale))]]

Rescaled(it, nq) == RescaleTable[nq][it]

\* Divisor with the upper ends of the ranges excluded.
DivisorOpen(it) ==
  IF 10 <= it /\ it < 50 THEN 2
  ELSE IF 50 <= it /\ it < 200 THEN 4
  ELSE IF 200 <= it /\ it < 500 THEN 8
  ELSE IF 500 <= it /\ it < 1000 THEN 16
  ELSE IF 1000 <= it /\ it < 2000 THEN 32
  ELSE IF 2000 <= it /\ it < 4000 THEN 64
  ELSE IF 4000 <= it /\ it < 6000 THEN 128
  ELSE IF 6000 <= it /\ it < 8000 THEN 256
  ELSE IF 8000 <= it THEN 512
  ELSE 1

Divisor(it) ==
  IF 10 < it /\ it <= 50 THEN 2
  ELSE IF 50 < it /\ it <= 200 THEN 4
  ELSE IF 200 < it /\ it <= 500 THEN 8
  ELSE IF 500 < it /\ it <= 1000 THEN 16
  ELSE IF 1000 < it /\ it <= 2000 THEN 32
  ELSE IF 2000 < it /\ it <= 4000 THEN 64
  ELSE IF 4000 < it /\ it <= 6000 THEN 128
  ELSE IF 6000 < it /\ it <= 8000 THEN 256
  ELSE IF 8000 < it THEN 512
  ELSE 1

\* p_selection without the rescaling of lines 144-145.
p_selectionUnscaled(it, nq, resc) ==
  <<P_INIT[1], P_INIT[2] * Divisor(it)>>

p_selection(it, nq, resc) ==
  LET it2 == IF resc THEN Rescaled(it, nq) ELSE it
  IN <<P_INIT[1], P_INIT[2] * Divisor(it2)>>

\* ---------------------------------------------------------- sampling ----
\* torch.sign(2 * rand - 1): rand = 0.5 gives 0.
Signs == {-1, 0, 1}

\* random_int(low, high) with shape [1]: low + (high - low) * rand, rand in
\* [0, 1), truncated toward zero by .long().
random_int(low, high) ==
  IF high > low THEN low..(high - 1)
  ELSE IF high = low THEN {low}
  ELSE (high + 1)..low

\* ------------------------------------------------------------- tensors ----
\* shape = <<c, d, h, w>>; an image is a function on Pix(shape).
Pix(shape) ==
  (0..(shape[1] - 1)) \X (0..(shape[2] - 1)) \X (0..(shape[3] - 1))
    \X (0..(shape[4] - 1))

clamp(v, lo, hi) == Max2(lo, Min2(v, hi))

\* Positions a:b selects on an axis of length n (Python slicing).
SliceNorm(i, n) == IF i < 0 THEN Max2(i + n, 0) ELSE Min2(i, n)
Slice(a, b, n) == {j \in 0..(n - 1) : SliceNorm(a, n) <= j /\ j < SliceNorm(b, n)}

\* max(int(round(root_cube(p * n_features / c))), 1), p = <<num, den>>.
CubeSide(p, shape) ==
  LET dhw == shape[2] * shape[3] * shape[4]
      v8 == 8 * p[1] * dhw
      r == CHOOSE k \in 0..dhw :
             /\ (2 * k - 1) * (2 * k - 1) * (2 * k - 1) * p[2] <= v8
             /\ v8 < (2 * k + 1) * (2 * k + 1) * (2 * k + 1) * p[2]
  IN Max2(r, 1)

\* new_deltas: zero but on the sliced cuboid, 2 * eps * sign[channel] there.
NewDeltas(cube, eps, shape) ==
  [q \in Pix(shape) |->
     IF /\ q[2] \in Slice(cube.vd, cube.vd + cube.s, shape[2])
        /\ q[3] \in Slice(cube.vh, cube.vh + cube.s, shape[3])
        /\ q[4] \in Slice(cube.vw, cube.vw + cube.s, shape[4])
     THEN 2 * eps * cube.sign[q[1]] ELSE 0]

\* InitBest with a step of 2 * eps.
InitBestTwice(xi, sg, eps, shape) ==
  [q \in Pix(shape) |->
     clamp(xi[q] + 2 * eps * sg[<<q[1], q[3], q[4]>>], 0, One)]

\* x_best at initialization: one sign per (channel, height, width).
InitBest(xi, sg, eps, shape) ==
  [q \in Pix(shape) |-> clamp(xi[q] + eps * sg[<<q[1], q[3], q[4]>>], 0, One)]

\* Candidate without the clipping into the eps-ball (lines 203-204).
CandidateBoxOnly(xb, xi, deltas, eps, shape) ==
  [q \in Pix(shape) |-> clamp(xb[q] + deltas[q], 0, One)]

\* The candidate of one example.
Candidate(xb, xi, deltas, eps, shape) ==
  [q \in Pix(shape) |->
     clamp(Min2(Max2(xb[q] + deltas[q], xi[q] - eps), xi[q] + eps), 0, One)]

\* --------------------------------------------------------------- inputs ----
None == -1
Unbound == <<>>
\* adv_curr and acc_curr are not read between the call of attack_single_run
\* (line 281) and the assignments that follow its return: their bindings of
\* the previous restart are dropped at the call.
Pending == <<"pending">>
EpsVals == {1}
LossVals == {"margin", "hinge"}
ThreshVals == {1}
Scores == 0..MaxScore
\* One score below, one at and one above the threshold: what a comparison
\* of a score with the threshold can tell apart.
Near(th) == Scores \cap {th - 1, th, th + 1}
XVals == {0, One \div 2}
Shapes == {<<1, 1, 1, 1>>, <<2, 1, 1, 1>>, <<1, 5, 1, 1>>}

Cells(shape) == shape[1] * shape[2] * shape[3] * shape[4]

\* self.predict.  Free is an oracle whose scores are unconstrained from one
\* invocation to the next.  A record [base, slope] is a deterministic
\* per-example oracle: the Dice score of an image is base + slope * (sum of
\* its elements), cut into the range of the scores.
Free == [free |-> TRUE]
Oracles == [base : Scores, slope : {-1, 0, 1}]

RECURSIVE ImageSum(_, _)
ImageSum(img, dom) ==
  IF dom = {} THEN 0
  ELSE LET q == CHOOSE r \in dom : TRUE
       IN img[q] + ImageSum(img, dom \ {q})

Dice(predict, img) ==
  clamp(predict.base + predict.slope * ImageSum(img, DOMAIN img), 0, MaxScore)
Image(sh, v) == [q \in Pix(sh) |-> v]
Images(sh) == {Image(sh, v) : v \in XVals}
\* The input batches: every image alone, and one batch of two different
\* single-element images.
Batches(sh) ==
  {<<img>> : img \in Images(sh)}
    \cup (IF Cells(sh) = 1 THEN {<<Image(sh, 0), Image(sh, One \div 2)>>}
          ELSE {})

\* ---------------------------------------------------------------- state ----
VARIABLES
  self,        \* the attack's attributes set by __init__
  shape,       \* x.shape[1:]
  x,           \* perturb's input batch, a sequence of images
  pc,          \* where perturb is
  adv,         \* perturb: running merged batch
  acc,         \* perturb: still-robust flag per example
  counter,     \* perturb: restart index
  ind_to_fool, \* perturb: batch indices of the current subset
  adv_curr,    \* perturb: batch returned by the last run, or Unbound
  dice_curr,   \* perturb: scores of adv_curr (line 282)
  ret,         \* perturb's return value
  seeded,      \* perturb: the random seed has been set (lines 270-271)
  predicted,   \* perturb: predict has been invoked
  x_to_fool,   \* attack_single_run: its x
  x_best, margin_min, loss_min, n_queries,
  i_iter,      \* attack_single_run: iterations executed so far
  margin,      \* scores of the last candidate batch, per active example
  cube,        \* the last sampled cuboid: vd, vh, vw, s, sign
  ind_succ,    \* examples found successful by the last success check
  n_predict,   \* invocations of predict made by the current run
  sched        \* the schedule calls of one run: it, n_queries, rescale, p

vars == <<self, shape, x, pc, adv, acc, counter, ind_to_fool, adv_curr,
          dice_curr, ret, seeded, predicted, x_to_fool, x_best, margin_min, loss_min, n_queries,
          i_iter, margin, cube, ind_succ, n_predict, sched>>

perturb_vars == <<adv, acc, counter, ind_to_fool, adv_curr, dice_curr, ret,
                  seeded, predicted>>
run_vars == <<x_to_fool, x_best, margin_min, loss_min, n_queries, i_iter,
              margin, cube, ind_succ, n_predict>>

NoCube == [vd |-> 0, vh |-> 0, vw |-> 0, s |-> 0, sign |-> <<>>]
NoSched == [it |-> 0, n_queries |-> 0, rescale |-> FALSE, p |-> <<>>]

\* The side of the cuboid is 1 under every p when the volume is below 5
\* elements; rescale_schedule is varied where it can matter.
Configs(sh) ==
  [n_queries : 0..MaxQueries, eps : EpsVals \cup {None}, loss : LossVals,
   n_restarts : 0..MaxRestarts,
   rescale_schedule : IF Cells(sh) < 5 THEN {TRUE} ELSE BOOLEAN,
   dice_thresh : ThreshVals, predict : {Free}]

Init ==
  /\ shape \in Shapes
  /\ self \in Configs(shape)
  /\ x \in Batches(shape)
  /\ pc = "new"
  /\ adv = <<>> /\ acc = <<>> /\ counter = 0 /\ ind_to_fool = <<>>
  /\ adv_curr = Unbound /\ dice_curr = <<>> /\ ret = Unbound
  /\ seeded = FALSE /\ predicted = FALSE
  /\ x_to_fool = <<>> /\ x_best = <<>> /\ margin_min = <<>>
  /\ loss_min = <<>> /\ n_queries = <<>> /\ i_iter = 0
  /\ margin = <<>> /\ cube = NoCube /\ ind_succ = {} /\ n_predict = 0
  /\ sched = NoSched

\* ------------------------------------------------------------- perturb ----
\* DiceScores with the scores of a deterministic oracle left free.
DiceScoresFree(batch) == [DOMAIN batch -> Scores]

\* margin_and_loss (lines 69-76): the score vectors predict and the Dice
\* metric can give for a batch; margin and loss are this same vector.
DiceScores(batch) ==
  IF self.predict = Free THEN [DOMAIN batch -> Scores]
  ELSE {[j \in DOMAIN batch |-> Dice(self.predict, batch[j])]}

\* The same where only the comparison with dice_thresh is used (lines 229-
\* 231, 266, 282): scores as their classes below, at and above it.
DiceClasses(batch) ==
  IF self.predict = Free THEN [DOMAIN batch -> Near(self.dice_thresh)]
  ELSE {[j \in DOMAIN batch |->
           clamp(Dice(self.predict, batch[j]),
                 self.dice_thresh - 1, self.dice_thresh + 1)]}

\* Robust with a score equal to the threshold counted as robust.
RobustAtThresh(dice, th) == dice >= th

\* acc = dice > dice_thresh (lines 266 and 282).
Robust(dice, th) == dice > th

\* HyperparamOk without the assertion on the loss (line 80).
HyperparamEpsOnly == self.eps # None

\* init_hyperparam's assertions.
HyperparamOk == self.eps # None /\ self.loss \in {"ce", "margin"}

init_hyperparam_fails ==
  /\ pc = "new" /\ ~HyperparamOk
  /\ pc' = "AssertionError"
  /\ UNCHANGED <<self, shape, x, perturb_vars, run_vars, sched>>

\* Lines 255-271: adv = x.clone(), the labels (the oracle's own prediction
\* when y is None) and acc from one scoring of the clean batch.
perturb_begin ==
  /\ pc = "new" /\ HyperparamOk
  /\ \E y_given \in BOOLEAN, dice \in DiceClasses(x) :
       acc' = [i \in 1..Len(x) |-> Robust(dice[i], self.dice_thresh)]
  /\ adv' = x
  /\ predicted' = TRUE
  /\ seeded' = TRUE
  /\ counter' = 0
  /\ pc' = "restart"
  /\ UNCHANGED <<self, shape, x, ind_to_fool, adv_curr, dice_curr, ret,
                 run_vars, sched>>

\* acc.nonzero(): the indices still robust, ascending.
RECURSIVE Nonzero(_, _)
Nonzero(flags, n) ==
  IF n = 0 THEN <<>>
  ELSE IF flags[n] THEN Append(Nonzero(flags, n - 1), n)
  ELSE Nonzero(flags, n - 1)

\* Lines 273-277 with an empty subset: the restart does nothing.
restart_skip ==
  /\ pc = "restart" /\ counter < self.n_restarts
  /\ Nonzero(acc, Len(acc)) = <<>>
  /\ ind_to_fool' = <<>>
  /\ counter' = counter + 1
  /\ UNCHANGED <<self, shape, x, pc, adv, acc, adv_curr, dice_curr, ret,
                 seeded, predicted, run_vars, sched>>

\* --------------------------------------------------- attack_single_run ----
\* Active with a score equal to the threshold counted as active.
ActiveAtThresh(mm, th) == mm >= th
\* idx_to_fool (line 183).
Active(mm, th) == mm > th
\* Improved with every candidate taken as an improvement.
ImprovedAlways(loss, lmin) == TRUE
\* Improved with an equal loss taken as an improvement.
ImprovedOrEqual(loss, lmin) == loss <= lmin
\* idx_improved (line 210) and idx_miscl (line 217).
Improved(loss, lmin) == loss < lmin
Miscl(m, th) == m < th
\* QueryInc charging the whole batch.
QueryIncAll(n, active) == n + 1
\* n_queries[idx_to_fool] += 1. (line 226).
QueryInc(n, active) == IF active THEN n + 1 ELSE n
\* ind_succ (lines 229-231) and the break test (line 244).
Success(dice, th) == dice < th
\* Breaks on the first success of any example.
BreaksOnAny(succ, n_ex_total) == succ # {}
Breaks(succ, n_ex_total) == Cardinality(succ) = n_ex_total
\* Invocations of predict in one iteration: lines 208, 228 and 230.
IterPredicts == 3

SignPos(sh) == (0..(sh[1] - 1)) \X (0..(sh[3] - 1)) \X (0..(sh[4] - 1))

\* Lines 273-281 and 171-179: the subset is cut out of x and the run
\* initialised; the loop is entered unless n_queries is 0.
attack_single_run_begin ==
  /\ pc = "restart" /\ counter < self.n_restarts
  /\ LET ind == Nonzero(acc, Len(acc))
         k == Len(ind)
     IN /\ k # 0
        /\ ind_to_fool' = ind
        /\ x_to_fool' = [j \in 1..k |-> x[ind[j]]]
        /\ \E sg \in [1..k -> [SignPos(shape) -> Signs]] :
             LET xb == [j \in 1..k |->
                          InitBest(x[ind[j]], sg[j], self.eps, shape)]
             IN /\ x_best' = xb
                /\ \E dice \in DiceScores(xb) :
                     margin_min' = dice /\ loss_min' = dice
        /\ n_queries' = [j \in 1..k |-> 1]
  /\ i_iter' = 0
  /\ margin' = <<>> /\ cube' = NoCube /\ ind_succ' = {}
  /\ n_predict' = 1
  /\ pc' = IF self.n_queries = 0 THEN "merge" ELSE "single_run"
  /\ adv_curr' = Pending /\ dice_curr' = <<>>
  /\ UNCHANGED <<self, shape, x, adv, acc, counter, ret, seeded, predicted,
                 sched>>

\* One iteration of the loop, lines 180-245.
iterate ==
  /\ pc = "single_run"
  /\ LET k == Len(x_to_fool)
         th == self.dice_thresh
         idx == {j \in 1..k : Active(margin_min[j], th)}
         p == p_selection(i_iter, self.n_queries, self.rescale_schedule)
         s == CubeSide(p, shape)
     IN \E vd \in random_int(0, shape[2] - s),
           vh \in random_int(0, shape[3] - s),
           vw \in random_int(0, shape[4] - s),
           sign \in [0..(shape[1] - 1) -> Signs] :
          LET cb == [vd |-> vd, vh |-> vh, vw |-> vw, s |-> s, sign |-> sign]
              deltas == NewDeltas(cb, self.eps, shape)
              x_new == [j \in idx |->
                          Candidate(x_best[j], x_to_fool[j], deltas,
                                    self.eps, shape)]
          IN \E m \in DiceScores(x_new) :
               LET imp(j) == j \in idx /\ Improved(m[j], loss_min[j])
                   upd(j) == j \in idx /\ (Improved(m[j], loss_min[j])
                                             \/ Miscl(m[j], th))
                   xb == [j \in 1..k |->
                            IF upd(j) THEN x_new[j] ELSE x_best[j]]
               IN \E dice \in DiceClasses(xb) :
                    LET succ == {j \in 1..k : Success(dice[j], th)}
                    IN /\ cube' = cb
                       /\ margin' = m
                       /\ loss_min' = [j \in 1..k |->
                                         IF imp(j) THEN m[j] ELSE loss_min[j]]
                       /\ margin_min' = [j \in 1..k |->
                                           IF upd(j) THEN m[j]
                                           ELSE margin_min[j]]
                       /\ x_best' = xb
                       /\ n_queries' = [j \in 1..k |->
                                          QueryInc(n_queries[j], j \in idx)]
                       /\ ind_succ' = succ
                       /\ pc' = IF \/ Breaks(succ, k)
                                   \/ i_iter + 1 = self.n_queries
                                THEN "merge" ELSE "single_run"
  /\ n_predict' = n_predict + IterPredicts
  /\ i_iter' = i_iter + 1
  /\ UNCHANGED <<self, shape, x, perturb_vars, x_to_fool, sched>>

\* ------------------------------------------------ perturb, continued ----
\* What perturb returns (line 293).
Returned(merged, last) == last

\* attack_single_run has returned: its locals no longer exist.
RunLocalsGone ==
  /\ x_to_fool' = <<>> /\ x_best' = <<>> /\ margin_min' = <<>>
  /\ loss_min' = <<>> /\ n_queries' = <<>> /\ i_iter' = 0
  /\ margin' = <<>> /\ cube' = NoCube /\ ind_succ' = {} /\ n_predict' = 0

\* Lines 281-286: the run's x_best is scored again and its successes are
\* merged into acc and adv.
restart_merge ==
  /\ pc = "merge"
  /\ adv_curr' = x_best
  /\ \E dice \in DiceClasses(x_best) :
       LET won(i) == \E j \in 1..Len(ind_to_fool) :
                       /\ ind_to_fool[j] = i
                       /\ ~Robust(dice[j], self.dice_thresh)
           pos(i) == CHOOSE j \in 1..Len(ind_to_fool) : ind_to_fool[j] = i
       IN /\ dice_curr' = dice
          /\ acc' = [i \in 1..Len(x) |-> IF won(i) THEN FALSE ELSE acc[i]]
          /\ adv' = [i \in 1..Len(x) |->
                       IF won(i) THEN x_best[pos(i)] ELSE adv[i]]
  /\ counter' = counter + 1
  /\ pc' = "restart"
  /\ RunLocalsGone
  /\ UNCHANGED <<self, shape, x, ind_to_fool, ret, seeded, predicted, sched>>

\* Line 293 after the last restart; adv_curr is a local no run has bound
\* when every restart was skipped.
perturb_return ==
  /\ pc = "restart" /\ counter = self.n_restarts
  /\ IF Returned(adv, adv_curr) = Unbound
     THEN pc' = "UnboundLocalError" /\ ret' = ret
     ELSE pc' = "done" /\ ret' = Returned(adv, adv_curr)
  /\ UNCHANGED <<self, shape, x, adv, acc, counter, ind_to_fool, adv_curr,
                 dice_curr, seeded, predicted, run_vars, sched>>

Next ==
  \/ init_hyperparam_fails
  \/ perturb_begin
  \/ restart_skip
  \/ attack_single_run_begin
  \/ iterate
  \/ restart_merge
  \/ perturb_return

Spec == Init /\ [][Next]_vars

\* -------------------------------------------- a deterministic oracle ----
\* perturb with predict a deterministic per-example oracle.
InitOracle ==
  /\ shape \in Shapes
  /\ \E c \in Configs(shape), o \in Oracles : self = [c EXCEPT !.predict = o]
  /\ x \in Batches(shape)
  /\ pc = "new"
  /\ adv = <<>> /\ acc = <<>> /\ counter = 0 /\ ind_to_fool = <<>>
  /\ adv_curr = Unbound /\ dice_curr = <<>> /\ ret = Unbound
  /\ seeded = FALSE /\ predicted = FALSE
  /\ x_to_fool = <<>> /\ x_best = <<>> /\ margin_min = <<>>
  /\ loss_min = <<>> /\ n_queries = <<>> /\ i_iter = 0
  /\ margin = <<>> /\ cube = NoCube /\ ind_succ = {} /\ n_predict = 0
  /\ sched = NoSched

SpecOracle == InitOracle /\ [][Next]_vars

\* ------------------------------------------------- the schedule alone ----
\* p_selection as the loop of one run calls it: i_iter = 0, 1, ...,
\* n_queries - 1.

InitSchedule ==
  /\ \E nq \in SchedQueries, r \in BOOLEAN :
       sched = [it |-> 0, n_queries |-> nq, rescale |-> r, p |-> <<>>]
  /\ self = [n_queries |-> 0, eps |-> None, loss |-> "margin",
             n_restarts |-> 0, rescale_schedule |-> FALSE, dice_thresh |-> 1,
             predict |-> Free]
  /\ shape = <<1, 1, 1, 1>> /\ x = <<>>
  /\ pc = "schedule"
  /\ adv = <<>> /\ acc = <<>> /\ counter = 0 /\ ind_to_fool = <<>>
  /\ adv_curr = Unbound /\ dice_curr = <<>> /\ ret = Unbound
  /\ seeded = FALSE /\ predicted = FALSE
  /\ x_to_fool = <<>> /\ x_best = <<>> /\ margin_min = <<>>
  /\ loss_min = <<>> /\ n_queries = <<>> /\ i_iter = 0
  /\ margin = <<>> /\ cube = NoCube /\ ind_succ = {} /\ n_predict = 0

\* sched.it counts the calls made; sched.p is p_selection(sched.it - 1).
p_selection_call ==
  /\ pc = "schedule" /\ sched.it < sched.n_queries
  /\ sched' = [sched EXCEPT
                 !.p = p_selection(sched.it, sched.n_queries, sched.rescale),
                 !.it = sched.it + 1]
  /\ UNCHANGED <<self, shape, x, pc, perturb_vars, run_vars>>

NextSchedule == p_selection_call

SpecSchedule == InitSchedule /\ [][NextSchedule]_vars

\* =============================================================== claims ====
InRun == pc \in {"single_run", "merge"}
AllSucc == Cardinality(ind_succ) = Len(x_to_fool)
\* p = a / b for the schedule's rational p.
PIs(p, a, b) == p # <<>> /\ p[1] * b = p[2] * a

\* C1: perturb returns the running merged batch adv, one entry per example
\* of the input batch, not the batch of the last run.
C1_ReturnsMerged == pc = "done" => ret = adv

\* C2: after initialization and after every iteration every element of
\* x_best lies within eps of the original element and inside [0, 1].
C2_Budget ==
  InRun =>
    \A j \in 1..Len(x_best) : \A q \in Pix(shape) :
      /\ x_to_fool[j][q] - self.eps <= x_best[j][q]
      /\ x_best[j][q] <= x_to_fool[j][q] + self.eps
      /\ 0 <= x_best[j][q] /\ x_best[j][q] <= One

\* Two iterations done; one element sits on the upper edge of its eps-ball
\* and another one on the box edge 0 that cuts its ball.
C2_Witness ==
  /\ pc = "merge" /\ i_iter = 2
  /\ \E j \in 1..Len(x_best) : \E q, r \in Pix(shape) :
       /\ x_best[j][q] = x_to_fool[j][q] + self.eps
       /\ x_best[j][r] = 0 /\ x_to_fool[j][r] - self.eps < 0

\* C3: within a run loss_min and margin_min of every example never increase
\* from one iteration to the next.
C3_Monotone ==
  [][(pc = "single_run" /\ InRun')
       => \A j \in 1..Len(loss_min) :
            /\ loss_min'[j] <= loss_min[j]
            /\ margin_min'[j] <= margin_min[j]]_vars

\* The second iteration's candidate of an active example scored worse than
\* the best loss, which was kept.
C3_Witness ==
  /\ InRun /\ i_iter = 2
  /\ \E j \in DOMAIN margin : margin[j] > loss_min[j]

\* C4: when attack_single_run returns, no query counter exceeds the
\* configured n_queries (stated for budgets of at least one query).
C4_QueryBound ==
  (pc = "merge" /\ self.n_queries >= 1)
    => \A j \in 1..Len(n_queries) : n_queries[j] <= self.n_queries

\* C5: an iteration adds exactly 1 to the query counter of every example
\* active at its start, accepted or not, and nothing to the others.
C5_QueryStep ==
  [][(pc = "single_run" /\ InRun')
       => \A j \in 1..Len(n_queries) :
            n_queries'[j] =
              n_queries[j]
                + (IF margin_min[j] > self.dice_thresh THEN 1 ELSE 0)]_vars

\* A batch of two after its first iteration: example 1 was active and its
\* candidate rejected, example 2 was not active.
C5_Witness ==
  /\ InRun /\ i_iter = 1 /\ Len(n_queries) = 2
  /\ n_queries[1] = 2 /\ n_queries[2] = 1
  /\ 1 \in DOMAIN margin /\ margin[1] > loss_min[1]

\* C6: a run goes on only while budget is left and the last success check
\* did not find every example successful; it ends before n_queries
\* iterations only with every example successful after its last iteration,
\* and otherwise after exactly n_queries iterations.
C6_EarlyStop ==
  /\ pc = "single_run"
       => i_iter < self.n_queries /\ (i_iter > 0 => ~AllSucc)
  /\ pc = "merge"
       => /\ i_iter < self.n_queries => (i_iter > 0 /\ AllSucc)
          /\ ~AllSucc => i_iter = self.n_queries

\* A run over two examples with a budget of two stopped after its first
\* iteration.
C6_Witness ==
  /\ pc = "merge" /\ i_iter = 1 /\ self.n_queries = 2
  /\ Len(x_to_fool) = 2 /\ AllSucc

\* C7 as amended: with p_init = 0.8, rescale_schedule and n_queries = 5000,
\* p is 0.8 at it = 0, 0.2 at it = 100 and 0.025 (p_init / 32) at it = 1000.
C7_Schedule ==
  (pc = "schedule" /\ sched.n_queries = 5000 /\ sched.rescale)
    => /\ sched.it = 1 => PIs(sched.p, 4, 5)
       /\ sched.it = 101 => PIs(sched.p, 1, 5)
       /\ sched.it = 1001 => PIs(sched.p, 1, 40)

\* C7 as stated: p is 0.0125 (p_init / 64) at it = 1000.
C7_Original ==
  (pc = "schedule" /\ sched.n_queries = 5000 /\ sched.rescale)
    => /\ sched.it = 1 => PIs(sched.p, 4, 5)
       /\ sched.it = 101 => PIs(sched.p, 1, 5)
       /\ sched.it = 1001 => PIs(sched.p, 1, 80)

\* p_selection(1000) has been called with n_queries = 5000, rescaled.
C7_Witness ==
  pc = "schedule" /\ sched.n_queries = 5000 /\ sched.rescale
    /\ sched.it = 1001

\* C8: when no run was executed (no example robust on the clean batch, or
\* n_restarts = 0), perturb completes normally and returns the input batch.
C8_EmptyReturnsInput ==
  (pc \in {"done", "UnboundLocalError"} /\ adv_curr = Unbound)
    => (pc = "done" /\ ret = x)

\* C9: a restart runs on exactly the examples whose acc is true; its merge
\* clears acc and writes the returned image into adv at the original index
\* for exactly the subset examples scored <= dice_thresh; acc never turns
\* true again; adv outside the successes is left as it was.
C9_Restart ==
  [][/\ (pc = "restart" /\ InRun')
          => /\ \A i \in 1..Len(x) :
                  acc[i] <=> \E j \in 1..Len(ind_to_fool') :
                               ind_to_fool'[j] = i
             /\ Len(x_to_fool') = Len(ind_to_fool')
             /\ \A j \in 1..Len(ind_to_fool') :
                  x_to_fool'[j] = x[ind_to_fool'[j]]
             /\ acc' = acc /\ adv' = adv
     /\ (pc = "single_run") => (acc' = acc /\ adv' = adv)
     /\ (pc = "merge" /\ pc' = "restart")
          => \A i \in 1..Len(x) :
               IF \E j \in 1..Len(ind_to_fool) :
                    ind_to_fool[j] = i /\ dice_curr'[j] <= self.dice_thresh
               THEN /\ acc'[i] = FALSE
                    /\ \E j \in 1..Len(ind_to_fool) :
                         ind_to_fool[j] = i /\ adv'[i] = x_best[j]
               ELSE acc'[i] = acc[i] /\ adv'[i] = adv[i]
     /\ (pc = "restart" /\ pc' = "restart") => (acc' = acc /\ adv' = adv)
     /\ \A i \in 1..Len(acc) :
          (Len(acc') = Len(acc) /\ ~acc[i]) => ~acc'[i]]_vars

\* The second restart ran on example 2 alone and won it with a score equal
\* to the threshold, example 1 having been won by the first restart.
C9_Witness ==
  /\ pc = "restart" /\ counter = 2 /\ Len(x) = 2
  /\ ind_to_fool = <<2>> /\ dice_curr = <<self.dice_thresh>>
  /\ acc = <<FALSE, FALSE>> /\ adv[1] # x[1] /\ adv[2] = adv_curr[1]

\* C10: within a run predict is invoked once by the initialization and once
\* by every iteration.
C10_OnePredictPerIteration ==
  [][/\ (pc = "restart" /\ InRun') => n_predict' = 1
     /\ (pc = "single_run" /\ InRun') => n_predict' = n_predict + 1]_vars

\* C11: a perturb call on an attack whose eps is None or whose loss is not
\* 'ce' or 'margin' fails before predict is invoked, before the seed is set
\* and before any restart or iteration starts.
C11_FailFast ==
  (self.eps = None \/ self.loss \notin {"ce", "margin"})
    => /\ pc \in {"new", "AssertionError"}
       /\ ~predicted /\ ~seeded
       /\ counter = 0 /\ i_iter = 0 /\ n_predict = 0
       /\ adv_curr = Unbound /\ x_best = <<>>

\* perturb has failed on an unrecognized loss with eps set.
C11_Witness ==
  pc = "AssertionError" /\ self.eps # None /\ self.loss = "hinge"

\* C12: whenever no example is active at the start of an iteration, the
\* run stops there: no candidate is built, predict is not invoked and no
\* further iteration is executed.
C12_StopOnEmpty ==
  [][(/\ pc = "single_run"
      /\ \A j \in 1..Len(margin_min) : margin_min[j] <= self.dice_thresh)
       => /\ pc' = "merge"
          /\ i_iter' = i_iter /\ n_predict' = n_predict /\ cube' = cube]_vars

\* C13: for every active example of an iteration, x_best, margin_min and
\* loss_min are all replaced by the candidate's image, margin and loss if
\* the candidate's loss is strictly lower than loss_min or its margin is
\* below dice_thresh; otherwise, an equal loss included, all three keep
\* their values.
C13_Acceptance ==
  [][(pc = "single_run" /\ InRun')
       => \A j \in 1..Len(margin_min) :
            margin_min[j] > self.dice_thresh
              => IF \/ margin'[j] < loss_min[j]
                    \/ margin'[j] < self.dice_thresh
                 THEN /\ x_best'[j] =
                           Candidate(x_best[j], x_to_fool[j],
                                     NewDeltas(cube', self.eps, shape),
                                     self.eps, shape)
                      /\ margin_min'[j] = margin'[j]
                      /\ loss_min'[j] = margin'[j]
                 ELSE /\ x_best'[j] = x_best[j]
                      /\ margin_min'[j] = margin_min[j]
                      /\ loss_min'[j] = loss_min[j]]_vars

\* The first iteration of a batch of two: the candidate of example 1 had a
\* loss equal to loss_min and was rejected although it differs from x_best,
\* that of example 2 scored below the threshold and was accepted.
C13_Witness ==
  /\ InRun /\ i_iter = 1 /\ Len(x_best) = 2 /\ DOMAIN margin = {1, 2}
  /\ margin[1] = loss_min[1]
  /\ x_best[1] # Candidate(x_best[1], x_to_fool[1],
                           NewDeltas(cube, self.eps, shape), self.eps, shape)
  /\ margin[2] < self.dice_thresh /\ margin_min[2] = margin[2]

\* C14: in every iteration the sampled anchor places a full cuboid of side
\* s inside the image: 0 <= vd, vd + s <= d, 0 <= vh, vh + s <= h, 0 <= vw,
\* vw + s <= w.
C14_CuboidInside ==
  (InRun /\ i_iter > 0)
    => /\ 0 <= cube.vd /\ cube.vd + cube.s <= shape[2]
       /\ 0 <= cube.vh /\ cube.vh + cube.s <= shape[3]
       /\ 0 <= cube.vw /\ cube.vw + cube.s <= shape[4]

\* The step table as the claim C15 words it.
TableDivisor(e) ==
  IF e <= 10 THEN 1 ELSE IF e <= 50 THEN 2 ELSE IF e <= 200 THEN 4
  ELSE IF e <= 500 THEN 8 ELSE IF e <= 1000 THEN 16
  ELSE IF e <= 2000 THEN 32 ELSE IF e <= 4000 THEN 64
  ELSE IF e <= 6000 THEN 128 ELSE IF e <= 8000 THEN 256 ELSE 512

\* C15: p_selection(it) returns p_init divided by the table's divisor of
\* the effective index, which is it without rescale_schedule and
\* floor(it * 10000 / n_queries) with it; p never increases from one call
\* to the next.
C15_Table ==
  [][pc = "schedule"
       => LET eff == IF sched.rescale
                     THEN (sched.it * RefScale) \div sched.n_queries
                     ELSE sched.it
          IN /\ PIs(sched'.p, 4, 5 * TableDivisor(eff))
             /\ sched.p # <<>>
                  => sched'.p[1] * sched.p[2] <= sched.p[1] * sched'.p[2]]_vars

\* p_selection(6) has been called with n_queries = 5000, rescaled: the
\* effective index lies just above the first edge of the table and p is
\* p_init / 2.
C15_Witness ==
  pc = "schedule" /\ sched.n_queries = 5000 /\ sched.rescale
    /\ sched.it = 7 /\ PIs(sched.p, 2, 5)

\* C16: every restart's run starts from the original images of the subset
\* still robust, perturbed afresh by eps per element, with counters at 1
\* and no iteration done; an unsuccessful example's x_best is not written
\* into adv, which holds the original image of every example still robust.
C16_FreshRestart ==
  [][/\ (pc = "restart" /\ InRun')
          => /\ i_iter' = 0
             /\ Len(x_best') = Len(ind_to_fool')
             /\ Len(margin_min') = Len(ind_to_fool')
             /\ \A j \in 1..Len(ind_to_fool') :
                  /\ acc[ind_to_fool'[j]]
                  /\ x_to_fool'[j] = x[ind_to_fool'[j]]
                  /\ n_queries'[j] = 1
                  /\ \A q \in Pix(shape) : \E sg \in {-1, 0, 1} :
                       x_best'[j][q] =
                         clamp(x[ind_to_fool'[j]][q] + sg * self.eps, 0, One)
     /\ (pc = "merge" /\ pc' = "restart")
          => \A j \in 1..Len(ind_to_fool) :
               dice_curr'[j] > self.dice_thresh
                 => /\ adv'[ind_to_fool[j]] = adv[ind_to_fool[j]]
                    /\ acc'[ind_to_fool[j]]
     /\ Len(acc') = Len(x)
          => \A i \in 1..Len(x) : acc'[i] => adv'[i] = x[i]]_vars

\* The second restart has just initialised its run on example 2 alone,
\* which the first restart attacked without success; example 1 was won.
C16_Witness ==
  /\ pc = "single_run" /\ counter = 1 /\ i_iter = 0 /\ Len(x) = 2
  /\ ind_to_fool = <<2>> /\ n_queries = <<1>>
  /\ adv[1] # x[1] /\ adv[2] = x[2] /\ x_best[1] # x_to_fool[1]

\* C17: an iteration leaves x_best, margin_min, loss_min and the query
\* counter of every example that is not active at its start unchanged.
C17_InactiveFrame ==
  [][(pc = "single_run" /\ InRun')
       => \A j \in 1..Len(margin_min) :
            margin_min[j] <= self.dice_thresh
              => /\ x_best'[j] = x_best[j]
                 /\ margin_min'[j] = margin_min[j]
                 /\ loss_min'[j] = loss_min[j]
                 /\ n_queries'[j] = n_queries[j]]_vars

\* Two iterations over a batch of two: example 1 was active in both,
\* example 2, scored at the threshold by the initialization, in none.
C17_Witness ==
  /\ InRun /\ i_iter = 2 /\ Len(n_queries) = 2
  /\ n_queries[1] = 3 /\ n_queries[2] = 1
  /\ margin_min[2] = self.dice_thresh

\* C18: with a deterministic per-example oracle, after initialization and
\* after every iteration margin_min[i] is the oracle's score of x_best[i];
\* the success check of the iteration and the score of the returned batch
\* in perturb agree with margin_min about every example whose score is not
\* dice_thresh.
C18_Bookkeeping ==
  [][/\ InRun'
          => \A j \in 1..Len(x_best') :
               /\ margin_min'[j] = Dice(self.predict, x_best'[j])
               /\ (i_iter' > 0 /\ margin_min'[j] # self.dice_thresh)
                    => (j \in ind_succ'
                          <=> ~(margin_min'[j] > self.dice_thresh))
     /\ (pc = "merge" /\ pc' = "restart")
          => \A j \in 1..Len(x_best) :
               margin_min[j] # self.dice_thresh
                 => (dice_curr'[j] > self.dice_thresh
                       <=> margin_min[j] > self.dice_thresh)]_vars

\* Two iterations under an oracle that depends on the image: example 1 was
\* moved below the threshold by an accepted candidate.
C18_Witness ==
  /\ pc = "merge" /\ i_iter = 2 /\ self.predict # Free
  /\ self.predict.slope # 0
  /\ margin_min[1] < self.dice_thresh /\ margin[1] = margin_min[1]
  /\ 1 \in ind_succ

\* C19: after initialization and after every iteration every element of
\* x_best equals clamp(x + eps, 0, 1) or clamp(x - eps, 0, 1) at its
\* position.
C19_Vertices ==
  InRun =>
    \A j \in 1..Len(x_best) : \A q \in Pix(shape) :
      \/ x_best[j][q] = clamp(x_to_fool[j][q] + self.eps, 0, One)
      \/ x_best[j][q] = clamp(x_to_fool[j][q] - self.eps, 0, One)

====
